---- MODULE Spec2Model ----
(***************************************************************************)
(* A model of the audio rubric runner:                                     *)
(*   - the JSON recovery functions of audio_analysis_smoke.py              *)
(*     (_balanced_json_block, parse_json_or_raise), specification SpecParse*)
(*   - one run of the command-line tool (__main__), specification SpecCLI  *)
(*   - the desktop GUI (AnalyzerGUI) with its worker thread, its child     *)
(*     process and its polled queue, specification SpecGUI.                *)
(*                                                                         *)
(* A text is a sequence of tokens.  The tokens are                         *)
(*   "{" "}"  the braces                                                   *)
(*   "k"      an object key with its colon ("k":)                          *)
(*   "1"      a digit                                                      *)
(*   "n"      the literal null                                             *)
(*   " "      one whitespace character                                     *)
(*   "F"      a code fence (three backticks)                               *)
(*   "j"      the word json, in any case                                   *)
(*   "x"      any other character                                          *)
(***************************************************************************)
EXTENDS Integers, Sequences, FiniteSets, TLC

VARIABLES
    \* ---- SpecParse: a text and what the two functions made of it
    pText, pApplied, pBlock, pParsed,
    \* ---- SpecCLI: one run of __main__
    pc, api_key, audio, requests, replies, finish, text, parsed,
    files, clock, exit_status,
    \* ---- SpecGUI: AnalyzerGUI, its worker threads and child processes
    audio_path, running, run_button, output_queue, log_text, inserted,
    workers, polling, existing

parseVars == <<pText, pApplied, pBlock, pParsed>>
cliVars == <<pc, api_key, audio, requests, replies, finish, text, parsed,
             files, clock, exit_status>>
guiVars == <<audio_path, running, run_button, output_queue, log_text, inserted,
             workers, polling, existing>>
vars == <<parseVars, cliVars, guiVars>>

----------------------------------------------------------------------------
(* Bounds *)

MaxLen == 6
MaxClock == 2
MaxRuns == 2
MaxLines == 2

----------------------------------------------------------------------------
(* Texts *)

\* the tokens of the texts that SpecParse enumerates (the replies of SpecCLI
\* also hold "n", "j" and "x")
Alphabet == {"{", "}", "k", "1", " ", "F"}

Texts(n) == UNION {[1..m -> Alphabet] : m \in 0..n}

Min(S) == CHOOSE a \in S : \A b \in S : a <= b

\* s[i..j], the empty text when j < i
Slice(s, i, j) == IF j < i THEN <<>> ELSE SubSeq(s, i, j)

\* Python's Optional[str]
NoneStr == [isNone |-> TRUE, s |-> <<>>]
SomeStr(s) == [isNone |-> FALSE, s |-> s]

\* the first position >= i that holds no whitespace (Len(s)+1 when there is none)
SkipWs(s, i) ==
    LET stop == {j \in i..Len(s) : s[j] # " "}
    IN  IF stop = {} THEN IF i > Len(s) THEN i ELSE Len(s) + 1 ELSE Min(stop)

\* str.strip()
strip(s) ==
    LET solid == {j \in 1..Len(s) : s[j] # " "}
    IN  IF solid = {} THEN <<>>
        ELSE Slice(s, Min(solid), CHOOSE a \in solid : \A b \in solid : b <= a)

----------------------------------------------------------------------------
(* json.loads *)

\* the position after the JSON value that starts exactly at i, 0 when none does
RECURSIVE ValueEnd(_, _)
ValueEnd(s, i) ==
    IF i > Len(s) THEN 0
    ELSE IF s[i] = "n" THEN i + 1
    ELSE IF s[i] = "1" THEN
        LET stop == {j \in i..Len(s) : s[j] # "1"}
        IN  IF stop = {} THEN Len(s) + 1 ELSE Min(stop)
    ELSE IF s[i] = "{" THEN
        LET j == SkipWs(s, i + 1)
        IN  IF j > Len(s) THEN 0
            ELSE IF s[j] = "}" THEN j + 1
            ELSE IF s[j] = "k" THEN
                LET e == ValueEnd(s, SkipWs(s, j + 1))
                    c == SkipWs(s, e)
                IN  IF e = 0 \/ c > Len(s) THEN 0
                    ELSE IF s[c] = "}" THEN c + 1 ELSE 0
            ELSE 0
    ELSE 0

IsJson(s) ==
    LET e == ValueEnd(s, SkipWs(s, 1))
    IN  e # 0 /\ SkipWs(s, e) = Len(s) + 1

\* The Python value of a JSON text, written without whitespace; Python's None
\* is the value of null.
None == <<"n">>
ValueOf(s) == SelectSeq(s, LAMBDA c : c # " ")

Raised == [ok |-> FALSE, val |-> <<>>]
Returned(v) == [ok |-> TRUE, val |-> v]

json_loads(s) == IF IsJson(s) THEN Returned(ValueOf(s)) ELSE Raised

----------------------------------------------------------------------------
(* _balanced_json_block *)

\* the depth after the characters start..i of s
RECURSIVE Depth(_, _, _)
Depth(s, start, i) ==
    IF i < start THEN 0
    ELSE Depth(s, start, i - 1)
         + (IF s[i] = "{" THEN 1 ELSE IF s[i] = "}" THEN -1 ELSE 0)

balanced_json_block(s) ==
    LET opens == {i \in 1..Len(s) : s[i] = "{"}
    IN  IF opens = {} THEN NoneStr
        ELSE LET start == Min(opens)
                 ends == {i \in start..Len(s) : s[i] = "}" /\ Depth(s, start, i) = 0}
             IN  IF ends = {} THEN NoneStr
                 ELSE SomeStr(Slice(s, start, Min(ends)))

----------------------------------------------------------------------------
(* the fenced-code search of parse_json_or_raise *)

\* the end of the capture group of a match that starts at the fence p, 0 when
\* no match starts there
FenceCaptureEnd(s, p) ==
    LET q == IF p + 1 <= Len(s) /\ s[p + 1] = "j" THEN p + 2 ELSE p + 1
        r == SkipWs(s, q)
        ends == {e \in (r + 1)..Len(s) :
                    /\ s[e] = "}"
                    /\ SkipWs(s, e + 1) <= Len(s)
                    /\ s[SkipWs(s, e + 1)] = "F"}
    IN  IF r > Len(s) THEN 0
        ELSE IF s[r] # "{" \/ ends = {} THEN 0 ELSE Min(ends)

fenced_search(s) ==
    LET starts == {p \in 1..Len(s) : s[p] = "F" /\ FenceCaptureEnd(s, p) # 0}
    IN  IF starts = {} THEN NoneStr
        ELSE LET p == Min(starts)
                 q == IF s[p + 1] = "j" THEN p + 2 ELSE p + 1
             IN  SomeStr(Slice(s, SkipWs(s, q), FenceCaptureEnd(s, p)))

----------------------------------------------------------------------------
(* parse_json_or_raise *)

parse_json_or_raise(t) ==
    IF json_loads(t).ok THEN json_loads(t)
    ELSE LET block == balanced_json_block(t)
         IN  IF ~block.isNone /\ block.s # <<>> THEN json_loads(block.s)
             ELSE LET m == fenced_search(t)
                  IN  IF ~m.isNone THEN json_loads(m.s) ELSE Raised

----------------------------------------------------------------------------
(* SpecParse: the two functions applied to every text of at most MaxLen     *)
(* tokens                                                                   *)

ParseIdle ==
    /\ pText = <<>> /\ pApplied = FALSE /\ pBlock = NoneStr /\ pParsed = Raised

InitParse ==
    /\ pText \in Texts(MaxLen)
    /\ pApplied = FALSE
    /\ pBlock = NoneStr
    /\ pParsed = Raised

ApplyParse ==
    /\ ~pApplied
    /\ pApplied' = TRUE
    /\ pBlock' = balanced_json_block(pText)
    /\ pParsed' = parse_json_or_raise(pText)
    /\ UNCHANGED pText

----------------------------------------------------------------------------
(* SpecCLI: one run of the command-line tool *)

\* os.getenv("OPENAI_API_KEY"): unset, set to the empty string, set to a key
ApiKeys == {"None", "", "sk"}

\* file names, character by character
AudioNames == {
    <<"s", ".", "w", "a", "v">>,
    <<"s", ".", "W", "A", "V">>,
    <<"s", ".", "M", "p", "3">>,
    <<"s", ".", "m", "p", "3">>,
    <<"s", ".", "o", "g", "g">>,
    <<"s", ".", "w", "a", "v", ".", "o", "g", "g">>,
    <<"w", "a", "v">>,
    <<".", "w", "a", "v">> }

lower_char(c) ==
    CASE c = "W" -> "w" [] c = "A" -> "a" [] c = "V" -> "v"
      [] c = "M" -> "m" [] c = "P" -> "p" [] OTHER -> c

\* str.lower()
lower(s) == [i \in 1..Len(s) |-> lower_char(s[i])]

\* str.lstrip(".")
lstrip_dot(s) ==
    LET solid == {j \in 1..Len(s) : s[j] # "."}
    IN  IF solid = {} THEN <<>> ELSE Slice(s, Min(solid), Len(s))

\* pathlib's PurePath.suffix: from the last dot of the name, when that dot is
\* neither its first nor its last character
suffix(name) ==
    LET dots == {j \in 1..Len(name) : name[j] = "."}
        i == CHOOSE a \in dots : \A b \in dots : b <= a
    IN  IF dots = {} THEN <<>>
        ELSE IF i = 1 \/ i = Len(name) THEN <<>>
        ELSE Slice(name, i, Len(name))

\* encode_audio_for_api without the test that the file exists
encode_audio_for_api_unchecked(a) ==
    lstrip_dot(lower(suffix(a.name))) \in {<<"w", "a", "v">>, <<"m", "p", "3">>}

\* encode_audio_for_api returns (rather than exits)
encode_audio_for_api_returns(a) ==
    /\ a.exists
    /\ lstrip_dot(lower(suffix(a.name))) \in {<<"w", "a", "v">>, <<"m", "p", "3">>}

\* The replies the model may give: the message content as a string, as a list
\* of parts, or absent with an audio transcript, each with a finish_reason.
T_obj == <<"{", "k", "1", "}">>
T_other == <<"{", "k", "1", "1", "}">>
T_null == <<"n">>
T_prose == <<"x", " ", "{", "k", "n", "}", " ", "x">>
T_cut == <<"{", "k", "{", "k", "1", "}">>
T_fence == <<"F", "j", " ", "{", "}", " ", "F">>
T_cutfence == <<"{", "F", "{", "}", "F">>
T_badblock == <<"{", "x", "}", "F", "{", "}", "F">>
T_junk == <<"x">>

ReplyTexts ==
    {T_obj, T_other, T_null, T_prose, T_cut, T_fence, T_cutfence, T_badblock,
     T_junk, <<>>, <<" ", "{", "}", " ">>}

StrContent(t) == [kind |-> "str", content |-> t, parts |-> <<>>, transcript |-> NoneStr]
ListContent(ps) == [kind |-> "list", content |-> <<>>, parts |-> ps, transcript |-> NoneStr]
AudioOnly(t) == [kind |-> "none", content |-> <<>>, parts |-> <<>>, transcript |-> SomeStr(t)]

Messages ==
    {StrContent(t) : t \in ReplyTexts}
    \cup {ListContent(<<>>), ListContent(<<T_obj>>), ListContent(<<<<" ">>, T_cut, <<"}">>>>),
          AudioOnly(T_obj), AudioOnly(T_junk),
          [kind |-> "none", content |-> <<>>, parts |-> <<>>, transcript |-> NoneStr]}

FinishReasons == {"stop", "length"}

Responses == {[finish_reason |-> f, message |-> m] : f \in FinishReasons, m \in Messages}

\* "\n".join(t.strip() for t in texts if t and t.strip()); the newline is a
\* whitespace token
RECURSIVE JoinStripped(_)
JoinStripped(ps) ==
    IF ps = <<>> THEN <<>>
    ELSE LET rest == JoinStripped(Tail(ps))
             kept == [i \in 1..Len(Tail(ps)) |-> strip(Tail(ps)[i]) # <<>>]
             more == \E i \in 1..Len(Tail(ps)) : kept[i]
         IN  IF strip(Head(ps)) = <<>> THEN rest
             ELSE IF more THEN strip(Head(ps)) \o <<" ">> \o rest
             ELSE strip(Head(ps))

extract_text_from_response(resp) ==
    LET msg == resp.message
    IN  IF msg.kind = "str" /\ strip(msg.content) # <<>> THEN strip(msg.content)
        ELSE IF msg.kind = "list" /\ msg.parts # <<>> THEN JoinStripped(msg.parts)
        ELSE IF ~msg.transcript.isNone THEN msg.transcript.s
        ELSE <<>>

\* timestamped_name: the base, the clock's second and the extension
timestamped_name(base, ext, now) == <<base, now, ext>>

WriteFile(fs, name, content) ==
    {f \in fs : f.name # name} \cup {[name |-> name, content |-> content]}

save_json(fs, payload, now) ==
    WriteFile(fs, timestamped_name("analysis_result", "json", now), payload)

save_raw_text(fs, t, base_name, now) ==
    WriteFile(fs, timestamped_name(base_name, "txt", now), t)

JsonFiles == {f \in files : f.name[3] = "json"}
RawFiles(base) == {f \in files : f.name[1] = base /\ f.name[3] = "txt"}

CliIdle ==
    /\ pc = "off" /\ api_key = "None" /\ audio = [exists |-> FALSE, name |-> <<>>]
    /\ requests = <<>> /\ replies = <<>> /\ finish = "" /\ text = <<>>
    /\ parsed = None /\ files = {} /\ clock = 0 /\ exit_status = -1

InitCLI ==
    /\ pc = "start"
    /\ api_key \in ApiKeys
    /\ audio \in [exists : BOOLEAN, name : AudioNames]
    /\ requests = <<>>
    /\ replies = <<>>
    /\ finish = ""
    /\ text = <<>>
    /\ parsed = None
    /\ files = {}
    /\ clock = 0
    /\ exit_status = -1

\* lines 230-240: the checks, then the primary request is sent
MainStart ==
    /\ pc = "start"
    /\ IF api_key \in {"None", ""} \/ ~encode_audio_for_api_returns(audio)
       THEN /\ pc' = "exited"
            /\ exit_status' = 1
            /\ UNCHANGED requests
       ELSE /\ pc' = "primary_wait"
            /\ requests' = Append(requests, [kind |-> "primary", partial |-> <<>>])
            /\ UNCHANGED exit_status
    /\ UNCHANGED <<api_key, audio, replies, finish, text, parsed, files, clock>>

\* line 254
NeedsContinuation(p, fin) == p = None \/ fin = "length"

\* the raw text of the primary reply is not saved at this point
FilesAfterPrimaryParse_unsaved(fs, r, t, now) == fs

\* lines 245-251: the files after the attempt to parse the primary reply
FilesAfterPrimaryParse(fs, r, t, now) ==
    IF r.ok THEN fs ELSE save_raw_text(fs, t, "analysis_result_raw", now)

\* lines 240-251: the primary reply arrives and is parsed
PrimaryReturns(resp) ==
    /\ pc = "primary_wait"
    /\ LET fin == resp.finish_reason
           t == extract_text_from_response(resp)
           r == parse_json_or_raise(t)
       IN  /\ replies' = Append(replies, [finish_reason |-> fin, text |-> t])
           /\ finish' = fin
           /\ text' = t
           /\ parsed' = IF r.ok THEN r.val ELSE None
           /\ files' = FilesAfterPrimaryParse(files, r, t, clock)
    /\ pc' = "primary_parsed"
    /\ UNCHANGED <<api_key, audio, requests, clock, exit_status>>

\* lines 253-256 and 271-279: the continuation request is sent, or the value
\* is saved and the run ends
ContinueOrSave ==
    /\ pc = "primary_parsed"
    /\ IF NeedsContinuation(parsed, finish)
       THEN /\ requests' = Append(requests, [kind |-> "continue", partial |-> text])
            /\ pc' = "continue_wait"
            /\ UNCHANGED <<files, exit_status>>
       ELSE /\ files' = save_json(files, parsed, clock)
            /\ pc' = "done"
            /\ exit_status' = 0
            /\ UNCHANGED requests
    /\ UNCHANGED <<api_key, audio, replies, finish, text, parsed, clock>>

\* the continuation keeps a primary value that had parsed
ParsedAfterContinuation_keep(old, r) == IF old # None THEN old ELSE r.val

\* lines 259-260: the value saved after a continuation reply that parsed
ParsedAfterContinuation(old, r) == r.val

\* the continuation reply arrives, and a reply that does not parse falls
\* through to save_json (no sys.exit(1))
ContinuationReturns_falls_through(resp) ==
    /\ pc = "continue_wait"
    /\ LET t2 == extract_text_from_response(resp)
           r == parse_json_or_raise(t2)
       IN  /\ replies' = Append(replies, [finish_reason |-> resp.finish_reason, text |-> t2])
           /\ IF r.ok
              THEN /\ parsed' = r.val
                   /\ text' = t2
                   /\ files' = save_json(files, parsed', clock)
              ELSE /\ files' = save_json(
                                   save_raw_text(files, t2, "analysis_result_raw_continuation", clock),
                                   parsed, clock)
                   /\ UNCHANGED <<parsed, text>>
           /\ pc' = "done"
           /\ exit_status' = 0
    /\ UNCHANGED <<api_key, audio, requests, finish, clock>>

\* lines 257-279: the continuation reply arrives
ContinuationReturns(resp) ==
    /\ pc = "continue_wait"
    /\ LET t2 == extract_text_from_response(resp)
           r == parse_json_or_raise(t2)
       IN  /\ replies' = Append(replies, [finish_reason |-> resp.finish_reason, text |-> t2])
           /\ IF r.ok
              THEN /\ parsed' = ParsedAfterContinuation(parsed, r)
                   /\ text' = t2
                   /\ files' = save_json(files, parsed', clock)
                   /\ pc' = "done"
                   /\ exit_status' = 0
              ELSE /\ files' = save_raw_text(files, t2, "analysis_result_raw_continuation", clock)
                   /\ pc' = "exited"
                   /\ exit_status' = 1
                   /\ UNCHANGED <<parsed, text>>
    /\ UNCHANGED <<api_key, audio, requests, finish, clock>>

\* client.chat.completions.create raises (network, API error): nothing
\* catches it and the interpreter ends the run with status 1
RequestRaises ==
    /\ pc \in {"primary_wait", "continue_wait"}
    /\ pc' = "raised"
    /\ exit_status' = 1
    /\ UNCHANGED <<api_key, audio, requests, replies, finish, text, parsed, files, clock>>

\* datetime.datetime.now() moves on while a request is in flight
Tick ==
    /\ pc \in {"primary_wait", "continue_wait"}
    /\ clock < MaxClock
    /\ clock' = clock + 1
    /\ UNCHANGED <<pc, api_key, audio, requests, replies, finish, text, parsed,
                   files, exit_status>>

----------------------------------------------------------------------------
(* SpecGUI: AnalyzerGUI, its worker threads and their child processes *)

RUN_SCRIPT == "run.py"
Paths == {"a.wav", "b.mp3"}

\* what the worker puts on output_queue: a line of the child, the
\* "[process] Finished with exit code" line, the "Failed to start" line, None.
\* The return code is part of the Finished line's text only: no step reads it.
LineMsg(w, k) == [kind |-> "line", run |-> w, n |-> k]
FinishedMsg(w) == [kind |-> "finished", run |-> w, n |-> 0]
FailedMsg(w) == [kind |-> "failed", run |-> w, n |-> 0]
NoneMsg(w) == [kind |-> "None", run |-> w, n |-> 0]

AliveChildren == {w \in 1..Len(workers) : workers[w].child = "alive"}

GuiIdle ==
    /\ audio_path = "" /\ running = FALSE /\ run_button = "disabled"
    /\ output_queue = <<>> /\ log_text = <<>> /\ inserted = <<>>
    /\ workers = <<>> /\ polling = FALSE /\ existing = {}

\* __init__
InitGUI ==
    /\ audio_path = ""
    /\ running = FALSE
    /\ run_button = "disabled"
    /\ output_queue = <<>>
    /\ log_text = <<>>
    /\ inserted = <<>>
    /\ workers = <<>>
    /\ polling = FALSE
    /\ existing \in {Paths \cup {RUN_SCRIPT}, Paths}

\* select_file: the dialog returns a path, or "" when it is cancelled
SelectFile(path) ==
    /\ ~polling
    /\ IF path # ""
       THEN /\ audio_path' = path
            /\ run_button' = "normal"
       ELSE UNCHANGED <<audio_path, run_button>>
    /\ UNCHANGED <<running, output_queue, log_text, inserted, workers, polling, existing>>

\* run_analysis without the test of self.running
RunAllowed_unguarded ==
    /\ RUN_SCRIPT \in existing
    /\ audio_path # ""
    /\ audio_path \in existing

\* lines 63-73 of run_analysis: none of the early returns is taken
RunAllowed ==
    /\ RUN_SCRIPT \in existing
    /\ audio_path # ""
    /\ ~running
    /\ audio_path \in existing

\* run_analysis, the command of the Run button (a disabled button runs nothing)
RunClick ==
    /\ ~polling
    /\ run_button = "normal"
    /\ Len(workers) < MaxRuns
    /\ IF RunAllowed
       THEN /\ log_text' = <<>>
            /\ running' = TRUE
            /\ run_button' = "disabled"
            /\ workers' = Append(workers,
                   [pc |-> "started", checked |-> audio_path, path |-> "",
                    child |-> "none", written |-> 0, pipe |-> <<>>])
       ELSE UNCHANGED <<log_text, running, run_button, workers>>
    /\ UNCHANGED <<audio_path, output_queue, inserted, polling, existing>>

\* _run_process, lines 83-92: the command is built and the child is started
WorkerPopen(w) ==
    /\ workers[w].pc = "started"
    /\ workers' = [workers EXCEPT ![w].pc = "reading", ![w].path = audio_path,
                                  ![w].child = "alive"]
    /\ UNCHANGED <<audio_path, running, run_button, output_queue, log_text,
                   inserted, polling, existing>>

\* _run_process, lines 83-94: Popen raises FileNotFoundError
WorkerPopenFails(w) ==
    /\ workers[w].pc = "started"
    /\ workers' = [workers EXCEPT ![w].pc = "failed", ![w].path = audio_path]
    /\ output_queue' = Append(output_queue, FailedMsg(w))
    /\ UNCHANGED <<audio_path, running, run_button, log_text, inserted, polling, existing>>

\* _run_process, lines 83-92: Popen raises something else than
\* FileNotFoundError (PermissionError or another OSError); nothing catches it,
\* the thread ends and has put nothing
WorkerPopenRaises(w) ==
    /\ workers[w].pc = "started"
    /\ workers' = [workers EXCEPT ![w].pc = "dead", ![w].path = audio_path]
    /\ UNCHANGED <<audio_path, running, run_button, output_queue, log_text,
                   inserted, polling, existing>>

\* the child process writes a line to its stdout
ChildWrite(w) ==
    /\ workers[w].child = "alive"
    /\ workers[w].written < MaxLines
    /\ workers' = [workers EXCEPT ![w].written = @ + 1,
                                  ![w].pipe = Append(@, workers[w].written + 1)]
    /\ UNCHANGED <<audio_path, running, run_button, output_queue, log_text,
                   inserted, polling, existing>>

\* the child process ends
ChildExit(w) ==
    /\ workers[w].child = "alive"
    /\ workers' = [workers EXCEPT ![w].child = "exited"]
    /\ UNCHANGED <<audio_path, running, run_button, output_queue, log_text,
                   inserted, polling, existing>>

\* _run_process, lines 99-100: one turn of the loop over process.stdout
WorkerRead(w) ==
    /\ workers[w].pc = "reading"
    /\ workers[w].pipe # <<>>
    /\ output_queue' = Append(output_queue, LineMsg(w, Head(workers[w].pipe)))
    /\ workers' = [workers EXCEPT ![w].pipe = Tail(@)]
    /\ UNCHANGED <<audio_path, running, run_button, log_text, inserted, polling, existing>>

\* the Finished line is put as soon as the child has ended, whatever is left
\* to read of its output
WorkerFinish_early(w) ==
    /\ workers[w].pc = "reading"
    /\ workers[w].child = "exited"
    /\ output_queue' = Append(output_queue, FinishedMsg(w))
    /\ workers' = [workers EXCEPT ![w].pc = "finished"]
    /\ UNCHANGED <<audio_path, running, run_button, log_text, inserted, polling, existing>>

\* _run_process, lines 101-102: end of file, wait() returns, the Finished line
WorkerFinish(w) ==
    /\ workers[w].pc = "reading"
    /\ workers[w].pipe = <<>>
    /\ workers[w].child = "exited"
    /\ output_queue' = Append(output_queue, FinishedMsg(w))
    /\ workers' = [workers EXCEPT ![w].pc = "finished"]
    /\ UNCHANGED <<audio_path, running, run_button, log_text, inserted, polling, existing>>

\* _run_process, lines 95 and 103: put(None), the thread ends
WorkerPutNone(w) ==
    /\ workers[w].pc \in {"finished", "failed"}
    /\ output_queue' = Append(output_queue, NoneMsg(w))
    /\ workers' = [workers EXCEPT ![w].pc = "dead"]
    /\ UNCHANGED <<audio_path, running, run_button, log_text, inserted, polling, existing>>

\* _poll_queue, lines 108-114: one get_nowait() that finds a message
PollGet ==
    /\ output_queue # <<>>
    /\ LET message == Head(output_queue)
       IN  IF message.kind = "None"
           THEN /\ running' = FALSE
                /\ run_button' = "normal"
                /\ polling' = FALSE
                /\ UNCHANGED <<log_text, inserted>>
           ELSE /\ log_text' = Append(log_text, message)
                /\ inserted' = Append(inserted, message)
                /\ polling' = TRUE
                /\ UNCHANGED <<running, run_button>>
    /\ output_queue' = Tail(output_queue)
    /\ UNCHANGED <<audio_path, workers, existing>>

\* _poll_queue, lines 115-118: get_nowait() raises queue.Empty, the poll ends
PollEmpty ==
    /\ polling
    /\ output_queue = <<>>
    /\ polling' = FALSE
    /\ UNCHANGED <<audio_path, running, run_button, output_queue, log_text,
                   inserted, workers, existing>>

\* the selected file is removed from the disk
FileRemoved(p) ==
    /\ p \in existing
    /\ existing' = existing \ {p}
    /\ UNCHANGED <<audio_path, running, run_button, output_queue, log_text,
                   inserted, workers, polling>>

----------------------------------------------------------------------------
(* The specifications *)

OtherThanParse == <<cliVars, guiVars>>
OtherThanCLI == <<parseVars, guiVars>>
OtherThanGUI == <<parseVars, cliVars>>

InitOfParse == InitParse /\ CliIdle /\ GuiIdle

NextParse == ApplyParse /\ UNCHANGED OtherThanParse

SpecParse == InitOfParse /\ [][NextParse]_vars

InitOfCLI == InitCLI /\ ParseIdle /\ GuiIdle

NextCLI ==
    \/ MainStart /\ UNCHANGED OtherThanCLI
    \/ \E resp \in Responses : PrimaryReturns(resp) /\ UNCHANGED OtherThanCLI
    \/ ContinueOrSave /\ UNCHANGED OtherThanCLI
    \/ \E resp \in Responses : ContinuationReturns(resp) /\ UNCHANGED OtherThanCLI
    \/ RequestRaises /\ UNCHANGED OtherThanCLI
    \/ Tick /\ UNCHANGED OtherThanCLI

SpecCLI == InitOfCLI /\ [][NextCLI]_vars

InitOfGUI == InitGUI /\ ParseIdle /\ CliIdle

NextGUI ==
    \/ \E path \in Paths \cup {""} : SelectFile(path) /\ UNCHANGED OtherThanGUI
    \/ RunClick /\ UNCHANGED OtherThanGUI
    \/ \E w \in 1..Len(workers) : WorkerPopen(w) /\ UNCHANGED OtherThanGUI
    \/ \E w \in 1..Len(workers) : WorkerPopenFails(w) /\ UNCHANGED OtherThanGUI
    \/ \E w \in 1..Len(workers) : WorkerPopenRaises(w) /\ UNCHANGED OtherThanGUI
    \/ \E w \in 1..Len(workers) : ChildWrite(w) /\ UNCHANGED OtherThanGUI
    \/ \E w \in 1..Len(workers) : ChildExit(w) /\ UNCHANGED OtherThanGUI
    \/ \E w \in 1..Len(workers) : WorkerRead(w) /\ UNCHANGED OtherThanGUI
    \/ \E w \in 1..Len(workers) : WorkerFinish(w) /\ UNCHANGED OtherThanGUI
    \/ \E w \in 1..Len(workers) : WorkerPutNone(w) /\ UNCHANGED OtherThanGUI
    \/ PollGet /\ UNCHANGED OtherThanGUI
    \/ PollEmpty /\ UNCHANGED OtherThanGUI
    \/ \E p \in Paths : FileRemoved(p) /\ UNCHANGED OtherThanGUI

SpecGUI == InitOfGUI /\ [][NextGUI]_vars

----------------------------------------------------------------------------
(* The claims about one run of the command-line tool (SpecCLI) *)

ParsesAsJson(t) == parse_json_or_raise(t).ok
ContinuationsSent == Cardinality({i \in 1..Len(requests) : requests[i].kind = "continue"})
PrimaryParsed == replies # <<>>
PrimaryHandled == pc \in {"continue_wait", "done", "exited", "raised"} /\ replies # <<>>
AllRequestsReturned == pc \in {"done", "exited"} /\ requests # <<>>
ContinuationAttempted == Len(requests) = 2

\* C1: once the primary reply has been handled, the continuation request has
\* been sent exactly once if that reply could not be parsed as JSON or its
\* finish_reason is "length", and not at all otherwise; no run sends more
\* than two model requests.
C1_ContinuationExactlyWhenNeeded ==
    /\ Len(requests) <= 2
    /\ PrimaryHandled =>
          ContinuationsSent =
              (IF ~ParsesAsJson(replies[1].text) \/ replies[1].finish_reason = "length"
               THEN 1 ELSE 0)

\* C2: a run that has ended after all its requests returned, and one of whose
\* replies (primary or continuation) parses as JSON, has written a JSON file.
C2_ParsedReplyIsPersisted ==
    (AllRequestsReturned /\ \E i \in 1..Len(replies) : ParsesAsJson(replies[i].text))
        => JsonFiles # {}

\* C3: a run that sent its requests and got every reply has exited with
\* status 1, the raw continuation text written and no JSON file, exactly when
\* a continuation was attempted and its reply could not be parsed; every other
\* such run has written exactly one JSON file and ended normally.
C3_ExitOneIffContinuationUnparsable ==
    AllRequestsReturned =>
        IF ContinuationAttempted /\ ~ParsesAsJson(replies[2].text)
        THEN /\ pc = "exited" /\ exit_status = 1
             /\ JsonFiles = {}
             /\ \E f \in RawFiles("analysis_result_raw_continuation") :
                    f.content = replies[2].text
        ELSE /\ pc = "done" /\ exit_status = 0
             /\ Cardinality(JsonFiles) = 1
             /\ RawFiles("analysis_result_raw_continuation") = {}

C3_Witness ==
    /\ pc = "exited" /\ exit_status = 1
    /\ ContinuationAttempted /\ Len(replies) = 2
    /\ ~ParsesAsJson(replies[2].text)
    /\ ParsesAsJson(replies[1].text)

\* C6: a run sends a model request or writes a file only if OPENAI_API_KEY is
\* set and the audio file exists and its name ends in .wav or .mp3, whatever
\* the case of the letters; in every other case the run has exited with an
\* error, no request sent, as soon as it has started.
WavOrMp3Endings ==
    {<<".", a, b, c>> : a \in {"w", "W"}, b \in {"a", "A"}, c \in {"v", "V"}}
    \cup {<<".", a, b, "3">> : a \in {"m", "M"}, b \in {"p", "P"}}

InputsUsable ==
    /\ api_key # "None"
    /\ audio.exists
    /\ Len(audio.name) >= 4
    /\ SubSeq(audio.name, Len(audio.name) - 3, Len(audio.name)) \in WavOrMp3Endings

C6_NoRequestWithoutKeyAndAudio ==
    /\ (requests # <<>> \/ files # {}) => InputsUsable
    /\ (~InputsUsable /\ pc # "start") =>
           pc = "exited" /\ exit_status = 1 /\ requests = <<>> /\ files = {}

C6_Witness ==
    /\ requests # <<>>
    /\ audio.name = <<"s", ".", "W", "A", "V">>

\* C9: the JSON object a run saves is the parse of the continuation reply
\* whenever a continuation was attempted, also when the primary reply had
\* itself parsed, and the parse of the primary reply when none was attempted.
C9_SavedObjectIsLastParse ==
    \A f \in JsonFiles :
        f.content = parse_json_or_raise(replies[Len(requests)].text).val

C9_Witness ==
    /\ pc = "done" /\ ContinuationAttempted /\ JsonFiles # {}
    /\ replies[1].finish_reason = "length"
    /\ ParsesAsJson(replies[1].text)
    /\ parse_json_or_raise(replies[1].text).val # parse_json_or_raise(replies[2].text).val

\* C10: from the moment the primary reply has been parsed, so before the
\* continuation request is sent, while it is in flight and also when it never
\* returns, the raw-text file of the primary reply exists exactly when that
\* reply failed to parse, and it holds the reply's text.
C10_RawPrimarySavedBeforeContinuation ==
    PrimaryParsed =>
        /\ RawFiles("analysis_result_raw") # {} <=> ~ParsesAsJson(replies[1].text)
        /\ \A f \in RawFiles("analysis_result_raw") : f.content = replies[1].text

C10_Witness ==
    /\ pc = "raised" /\ ContinuationAttempted /\ Len(replies) = 1
    /\ RawFiles("analysis_result_raw") # {}

----------------------------------------------------------------------------
(* The claims about the JSON recovery functions (SpecParse) *)

\* the brace-balanced blocks of s, as pairs of positions: an opening brace and
\* the closing brace that matches it
BalancedBlocks(s) ==
    {b \in (1..Len(s)) \X (1..Len(s)) :
        /\ b[1] < b[2]
        /\ s[b[1]] = "{" /\ s[b[2]] = "}"
        /\ Depth(s, b[1], b[2]) = 0
        /\ \A m \in b[1]..(b[2] - 1) : Depth(s, b[1], m) > 0}

\* those that lie in no other
TopLevelBlocks(s) ==
    {b \in BalancedBlocks(s) :
        ~\E c \in BalancedBlocks(s) : c[1] < b[1] /\ b[2] < c[2]}

\* C7: _balanced_json_block returns the largest top-level brace-balanced block
\* of the text, and None only when the text holds no brace-balanced block.
C7_LargestTopLevelBlock ==
    pApplied =>
        IF BalancedBlocks(pText) = {} THEN pBlock.isNone
        ELSE /\ ~pBlock.isNone
             /\ \E b \in TopLevelBlocks(pText) :
                   /\ pBlock.s = SubSeq(pText, b[1], b[2])
                   /\ \A c \in TopLevelBlocks(pText) : c[2] - c[1] <= b[2] - b[1]

\* C8: parse_json_or_raise returns a value whenever one of its three
\* strategies (the text itself, its balanced block, its fenced block) yields
\* valid JSON.
C8_RaisesOnlyWhenAllStrategiesFail ==
    pApplied =>
        ((\/ json_loads(pText).ok
          \/ (~balanced_json_block(pText).isNone /\ json_loads(balanced_json_block(pText).s).ok)
          \/ (~fenced_search(pText).isNone /\ json_loads(fenced_search(pText).s).ok))
            => pParsed.ok)

----------------------------------------------------------------------------
(* The claims about the GUI (SpecGUI) *)

\* C4: no two child processes are alive at the same time: whenever a worker
\* has been started after another, the earlier worker's child is not running.
C4_OneChildAtATime ==
    /\ Cardinality(AliveChildren) <= 1
    /\ \A v, w \in 1..Len(workers) : v < w => workers[v].child # "alive"

C4_Witness ==
    /\ Len(workers) >= 2
    /\ workers[1].child = "exited"
    /\ workers[2].child = "alive"

\* what has been inserted into the log for run w, in the order of insertion
InsertedOf(w) ==
    SelectSeq(inserted, LAMBDA m : m.run = w /\ m.kind \in {"line", "finished"})

\* what the child of run w has written so far, then the Finished line once
\* the worker has put it
WrittenOf(w) ==
    [i \in 1..workers[w].written |-> LineMsg(w, i)]
    \o (IF workers[w].pc \in {"finished", "dead"} /\ workers[w].child = "exited"
        THEN <<FinishedMsg(w)>> ELSE <<>>)

\* the poll has taken the None that ends run w
RunOver(w) ==
    /\ workers[w].pc = "dead"
    /\ \A i \in 1..Len(output_queue) : output_queue[i].run # w

IsPrefix(a, b) == Len(a) <= Len(b) /\ \A i \in 1..Len(a) : a[i] = b[i]

\* C5: for every run, what has been inserted into the log is a prefix of the
\* child's lines in the order written, each once, then the Finished line; and
\* once the run is over it is all of them.
C5_LinesOnceInOrderThenFinished ==
    \A w \in 1..Len(workers) :
        /\ IsPrefix(InsertedOf(w), WrittenOf(w))
        /\ RunOver(w) => InsertedOf(w) = WrittenOf(w)

C5_Witness ==
    \E w \in 1..Len(workers) :
        /\ RunOver(w)
        /\ workers[w].written = 2
        /\ InsertedOf(w) = <<LineMsg(w, 1), LineMsg(w, 2), FinishedMsg(w)>>

\* every worker thread has ended and the poll has taken all they put
Quiescent ==
    /\ workers # <<>>
    /\ \A w \in 1..Len(workers) : workers[w].pc = "dead"
    /\ output_queue = <<>>
    /\ ~polling

\* C11: every run returns the GUI to idle, whatever the outcome of launching
\* the child: once the run's thread has ended and the poll has drained the
\* queue (after which no step resets running), running is false and the Run
\* button is enabled.
C11_RunReturnsToIdle ==
    Quiescent => ~running /\ run_button = "normal"

\* C12: the audio path the worker passes to the child process is the path
\* run_analysis checked for existence when the run was started.
C12_WorkerUsesCheckedPath ==
    \A w \in 1..Len(workers) :
        workers[w].pc # "started" => workers[w].path = workers[w].checked

\* C13: the Run button is disabled whenever a run is in progress.
C13_RunDisabledWhileRunning ==
    running => run_button = "disabled"

====
